---- MODULE Spec2Model ----
(***************************************************************************)
(* The chat endpoint of the AI Chat Service (src/python/main.py): the      *)
(* module-level configuration, the assembly of the prompt, the single      *)
(* call of the generation provider and the mapping of its result or of an  *)
(* exception to the HTTP outcome.                                          *)
(*                                                                         *)
(* Texts that the program concatenates, slices or searches are sequences   *)
(* of one-character strings.  Texts it only passes along or compares as a  *)
(* whole (the role of a turn, the status of a response, an environment     *)
(* value) are TLA+ strings.  An Optional[...] value is <<>> for None and   *)
(* <<v>> for the value v.                                                  *)
(***************************************************************************)
EXTENDS Integers, Sequences, FiniteSets, TLC

(***************************************************************************)
(* Bounds of the model.                                                    *)
(***************************************************************************)
\* longest padding put before and after the core of an error text
MaxPad == 1
\* longest conversation history of a request
MaxHist == 11

(***************************************************************************)
(* Program constants.                                                      *)
(***************************************************************************)
HistoryLimit == 10
MaxOutputTokens == 1000
TemperatureTenths == 7
PromptLogLimit == 200
ResponseLogLimit == 100
StatusOK == 200
StatusInternalError == 500

(***************************************************************************)
(* The program's string literals.                                          *)
(***************************************************************************)
DefaultSystemPrompt ==
    <<"\n"," "," "," "," "," "," "," "," "," "," "," "," ","Y","o","u"," ","a","r","e"," ","a",
      " ","h","e","l","p","f","u","l"," ","A","I"," ","a","s","s","i","s","t","a","n","t"," ",
      "t","h","a","t"," ","a","n","s","w","e","r","s"," ","q","u","e","s","t","i","o","n","s",
      " ","b","a","s","e","d"," ","o","n"," ","p","r","o","v","i","d","e","d"," ","c","o","n",
      "t","e","x","t","."," ","\n"," "," "," "," "," "," "," "," "," "," "," "," ","I","f"," ",
      "s","e","a","r","c","h"," ","c","o","n","t","e","x","t"," ","i","s"," ","p","r","o","v",
      "i","d","e","d",","," ","u","s","e"," ","i","t"," ","t","o"," ","g","i","v","e"," ","a",
      "c","c","u","r","a","t","e"," ","a","n","d"," ","d","e","t","a","i","l","e","d"," ","a",
      "n","s","w","e","r","s","."," ","\n"," "," "," "," "," "," "," "," "," "," "," "," ","I",
      "f"," ","n","o"," ","c","o","n","t","e","x","t"," ","i","s"," ","p","r","o","v","i","d",
      "e","d"," ","o","r"," ","i","t","'","s"," ","n","o","t"," ","r","e","l","e","v","a","n",
      "t",","," ","p","r","o","v","i","d","e"," ","h","e","l","p","f","u","l"," ","r","e","s",
      "p","o","n","s","e","s"," ","b","a","s","e","d"," ","o","n"," ","y","o","u","r"," ","k",
      "n","o","w","l","e","d","g","e",".","\n"," "," "," "," "," "," "," "," "," "," "," "," ",
      "B","e"," ","c","o","n","v","e","r","s","a","t","i","o","n","a","l"," ","a","n","d"," ",
      "f","r","i","e","n","d","l","y",".">>
SystemTag ==
    <<"S","y","s","t","e","m",":"," ">>
HumanRole ==
    <<"H","u","m","a","n">>
AssistantRole ==
    <<"A","s","s","i","s","t","a","n","t">>
RoleSep ==
    <<":"," ">>
QuestionTag ==
    <<"Q","u","e","s","t","i","o","n",":"," ">>
ContextTag ==
    <<"\n"," "," "," "," "," "," "," "," "," "," "," "," ","#"," ","S","e","a","r","c","h"," ",
      "C","o","n","t","e","x","t",":","\n"," "," "," "," "," "," "," "," "," "," "," "," ","#",
      " ">>
InstructionTail ==
    <<"\n","\n"," "," "," "," "," "," "," "," "," "," "," "," ","#"," ","P","l","e","a","s","e",
      " ","a","n","s","w","e","r"," ","t","h","e"," ","q","u","e","s","t","i","o","n"," ","u",
      "s","i","n","g"," ","t","h","e"," ","p","r","o","v","i","d","e","d"," ","s","e","a","r",
      "c","h"," ","c","o","n","t","e","x","t"," ","w","h","e","n"," ","r","e","l","e","v","a",
      "n","t",".">>
HumanTag ==
    <<"H","u","m","a","n",":"," ">>
Separator ==
    <<"\n","\n">>
KeyNotConfigured ==
    <<"G","e","m","i","n","i"," ","A","P","I"," ","k","e","y"," ","n","o","t"," ","c","o","n",
      "f","i","g","u","r","e","d">>
Apology ==
    <<"I","'","m"," ","s","o","r","r","y",","," ","I","'","m"," ","h","a","v","i","n","g"," ",
      "t","r","o","u","b","l","e"," ","c","o","n","n","e","c","t","i","n","g"," ","t","o"," ",
      "t","h","e"," ","A","I"," ","s","e","r","v","i","c","e"," ","r","i","g","h","t"," ","n",
      "o","w","."," ","P","l","e","a","s","e"," ","t","r","y"," ","a","g","a","i","n"," ","l",
      "a","t","e","r",".">>
InternalErrorPrefix ==
    <<"I","n","t","e","r","n","a","l"," ","s","e","r","v","e","r"," ","e","r","r","o","r",":",
      " ">>
ApiMarker ==
    <<"A","P","I">>
QuotaMarker ==
    <<"q","u","o","t","a">>
NoneText ==
    <<"N","o","n","e">>
ReceivedTag ==
    <<"R","e","c","e","i","v","e","d"," ","c","h","a","t"," ","r","e","q","u","e","s","t"," ",
      "f","r","o","m"," ","u","s","e","r"," ">>
SendingTag ==
    <<"S","e","n","d","i","n","g"," ","p","r","o","m","p","t"," ","t","o"," ","G","e","m","i",
      "n","i",":"," ">>
ResponseTag ==
    <<"R","e","c","e","i","v","e","d"," ","r","e","s","p","o","n","s","e"," ","f","r","o","m",
      " ","G","e","m","i","n","i",":"," ">>
Ellipsis ==
    <<".",".",".">>
ApiErrorTag ==
    <<"G","e","m","i","n","i"," ","A","P","I"," ","e","r","r","o","r",":"," ">>
UnexpectedTag ==
    <<"U","n","e","x","p","e","c","t","e","d"," ","e","r","r","o","r",":"," ">>
KeyNotFoundLog ==
    <<"G","E","M","I","N","I","_","A","P","I","_","K","E","Y"," ","n","o","t"," ","f","o","u",
      "n","d"," ","i","n"," ","e","n","v","i","r","o","n","m","e","n","t"," ","v","a","r","i",
      "a","b","l","e","s">>
DefaultModel == "gemini-1.5-pro"

(***************************************************************************)
(* Python's str and list operations, as the handler uses them.             *)
(***************************************************************************)
UpperLetters ==
    <<"A","B","C","D","E","F","G","H","I","J","K","L","M","N","O","P","Q","R","S","T","U","V",
      "W","X","Y","Z">>
LowerLetters ==
    <<"a","b","c","d","e","f","g","h","i","j","k","l","m","n","o","p","q","r","s","t","u","v",
      "w","x","y","z">>
DigitChars ==
    <<"0","1","2","3","4","5","6","7","8","9">>

None == <<>>
Some(v) == <<v>>

\* bool(x) of an Optional[str] held as a TLA+ string: None and "" are falsy
TruthyStr(opt) == opt # None /\ opt[1] # ""
\* bool(x) of an Optional[str] held as a character sequence
TruthyText(opt) == opt # None /\ opt[1] # <<>>

\* str.lower() on one character
LowerChar(c) ==
    IF \E i \in 1..Len(UpperLetters) : UpperLetters[i] = c
    THEN LowerLetters[CHOOSE i \in 1..Len(UpperLetters) : UpperLetters[i] = c]
    ELSE c
\* str.upper() on one character
UpperChar(c) ==
    IF \E i \in 1..Len(LowerLetters) : LowerLetters[i] = c
    THEN UpperLetters[CHOOSE i \in 1..Len(LowerLetters) : LowerLetters[i] = c]
    ELSE c
\* s.lower()
lower(s) == [i \in 1..Len(s) |-> LowerChar(s[i])]
\* pat in s
Contains(s, pat) ==
    \E i \in 0..(Len(s) - Len(pat)) : SubSeq(s, i + 1, i + Len(pat)) = pat
\* s[:n]
Prefix(s, n) == SubSeq(s, 1, IF n < Len(s) THEN n ELSE Len(s))
\* s[-n:]
LastN(s, n) == IF Len(s) <= n THEN s ELSE SubSeq(s, Len(s) - n + 1, Len(s))
\* sep.join(parts)
RECURSIVE Join(_, _)
Join(parts, sep) ==
    IF parts = <<>> THEN <<>>
    ELSE IF Len(parts) = 1 THEN parts[1]
    ELSE parts[1] \o sep \o Join(Tail(parts), sep)
\* str(n) of a non-negative integer
RECURSIVE Decimal(_)
Decimal(n) ==
    IF n < 10 THEN <<DigitChars[n + 1]>>
    ELSE Decimal(n \div 10) \o <<DigitChars[(n % 10) + 1]>>
\* f"{x}" of an Optional[str]
FormatOpt(opt) == IF opt = None THEN NoneText ELSE opt[1]

(***************************************************************************)
(* State.                                                                  *)
(***************************************************************************)
VARIABLES
    env,                 \* os.environ: GEMINI_API_KEY and GEMINI_MODEL
    env_at_start,        \* os.environ as it was when the module was imported
    gemini_api_key,      \* the module-level gemini_api_key
    http_exception_str,  \* what str() of an HTTPException gives in the installed Starlette
    request,             \* the ChatRequest being handled, None before the first one
    upstream,            \* what the generation provider did for this request
    caught,              \* the exception e bound by the except clause
    conversation_parts,  \* the handler's conversation_parts
    calls,               \* the generate_content calls made for this request
    outcome,             \* what the client gets: a ChatResponse or an HTTP error
    log_lines            \* the lines logged by the startup or by the handler's run

vars == <<env, env_at_start, gemini_api_key, http_exception_str, request, upstream,
          caught, conversation_parts, calls, outcome, log_lines>>

(***************************************************************************)
(* Exceptions, responses, log records.                                     *)
(***************************************************************************)
NoException == [type |-> "none", status_code |-> 0, detail |-> <<>>, message |-> <<>>]
\* HTTPException(status_code=..., detail=...)
HTTPException(status_code, detail) ==
    [type |-> "HTTPException", status_code |-> status_code, detail |-> detail,
     message |-> <<>>]
\* any other exception, raised with the text message
Exception(message) ==
    [type |-> "Exception", status_code |-> 0, detail |-> <<>>, message |-> message]

\* str(e).  Starlette's HTTPException is built from keyword arguments only, so
\* its args are empty: str(e) is "" unless the installed version defines
\* __str__, which gives "<status_code>: <detail>".
StrOf(e) ==
    IF e.type = "HTTPException"
    THEN IF http_exception_str = "status_and_detail"
         THEN Decimal(e.status_code) \o RoleSep \o e.detail
         ELSE <<>>
    ELSE e.message

Pending ==
    [kind |-> "pending", status_code |-> 0, response |-> <<>>, status |-> "",
     error |-> None, detail |-> <<>>]
\* a returned ChatResponse, sent with the route's default status code
ChatResponse(response, status, error) ==
    [kind |-> "ChatResponse", status_code |-> StatusOK, response |-> response,
     status |-> status, error |-> error, detail |-> <<>>]
\* an HTTPException leaving the handler: FastAPI answers {"detail": ...}
HTTPError(e) ==
    [kind |-> "HTTPException", status_code |-> e.status_code, response |-> <<>>,
     status |-> "", error |-> None, detail |-> e.detail]

Info(msg) == [level |-> "INFO", msg |-> msg]
Error(msg) == [level |-> "ERROR", msg |-> msg]

(***************************************************************************)
(* Module level: reading the configuration.                                *)
(***************************************************************************)
\* not gemini_api_key
KeyMissingIsNone(key) == key = None
KeyMissing(key) == ~TruthyStr(key)

StartupLog(key) == IF KeyMissing(key) THEN <<Error(KeyNotFoundLog)>> ELSE <<>>

(***************************************************************************)
(* chat_endpoint: the prompt.                                              *)
(***************************************************************************)
\* request.system_prompt or <default>
SystemPrompt(req) ==
    IF TruthyText(req.system_prompt) THEN req.system_prompt[1] ELSE DefaultSystemPrompt

\* "Human" if msg.role == "user" else "Assistant"
RoleTag(role) == IF role = "user" THEN HumanRole ELSE AssistantRole

\* f"{role}: {msg.content}"
HistorySegment(msg) == RoleTag(msg.role) \o RoleSep \o msg.content

\* request.history[-10:]
HistoryWindowFirst(history) == Prefix(history, HistoryLimit)
HistoryWindow(history) == LastN(history, HistoryLimit)

\* current_message
CurrentMessageNotNone(req) ==
    IF req.search_context # None
    THEN QuestionTag \o req.message \o ContextTag \o req.search_context[1]
         \o InstructionTail
    ELSE req.message
CurrentMessage(req) ==
    IF TruthyText(req.search_context)
    THEN QuestionTag \o req.message \o ContextTag \o req.search_context[1]
         \o InstructionTail
    ELSE req.message

\* conversation_parts when the prompt is joined
ConversationParts(req) ==
    LET window == HistoryWindow(req.history)
    IN  <<SystemTag \o SystemPrompt(req)>>
        \o [i \in 1..Len(window) |-> HistorySegment(window[i])]
        \o <<HumanTag \o CurrentMessage(req)>>

\* "\n\n".join(conversation_parts)
FullPrompt(parts) == Join(parts, Separator)

(***************************************************************************)
(* chat_endpoint: the generation call.                                     *)
(***************************************************************************)
\* os.getenv("GEMINI_MODEL", "gemini-1.5-pro"), evaluated in the handler
model_name_at_start ==
    IF env_at_start.GEMINI_MODEL = None THEN DefaultModel ELSE env_at_start.GEMINI_MODEL[1]
model_name ==
    IF env.GEMINI_MODEL = None THEN DefaultModel ELSE env.GEMINI_MODEL[1]

GenerationConfig ==
    [max_output_tokens |-> MaxOutputTokens, temperature_tenths |-> TemperatureTenths]

GenerateCall(full_prompt) ==
    [model |-> model_name, prompt |-> full_prompt, generation_config |-> GenerationConfig]

\* the provider calls made by model.generate_content(...): one, whatever it does
ProviderCallsRetry(full_prompt, b) ==
    IF b.at = "generate_content"
    THEN <<GenerateCall(full_prompt), GenerateCall(full_prompt)>>
    ELSE <<GenerateCall(full_prompt)>>
ProviderCalls(full_prompt, b) == <<GenerateCall(full_prompt)>>

\* the ChatResponse of the success path
SuccessResponseAsError(ai_response) == ChatResponse(Apology, "error", Some(ai_response))
SuccessResponse(ai_response) == ChatResponse(ai_response, "success", None)

(***************************************************************************)
(* chat_endpoint: the except clause.                                       *)
(***************************************************************************)
\* "API" in str(e) or "quota" in str(e).lower()
IsUpstreamErrorQuotaOnly(text) == Contains(lower(text), QuotaMarker)
IsUpstreamErrorNoLower(text) == Contains(text, ApiMarker) \/ Contains(text, QuotaMarker)
IsUpstreamError(text) == Contains(text, ApiMarker) \/ Contains(lower(text), QuotaMarker)

\* the ChatResponse that absorbs an upstream failure
UpstreamErrorResponse(text) == ChatResponse(Apology, "error", Some(text))

\* f"Internal server error: {str(e)}"
InternalErrorDetailNoText(text) == InternalErrorPrefix
InternalErrorDetail(text) == InternalErrorPrefix \o text

ExceptOutcome(e) ==
    IF IsUpstreamError(StrOf(e))
    THEN UpstreamErrorResponse(StrOf(e))
    ELSE HTTPError(HTTPException(StatusInternalError, InternalErrorDetail(StrOf(e))))

ExceptLog(e) ==
    IF IsUpstreamError(StrOf(e))
    THEN Error(ApiErrorTag \o StrOf(e))
    ELSE Error(UnexpectedTag \o StrOf(e))

(***************************************************************************)
(* chat_endpoint as a whole.  b is what the provider does if it is used:   *)
(* b.at = "none" returns the text b.text; otherwise the named step raises  *)
(* an exception with the text b.text.                                      *)
(***************************************************************************)
NotConsulted == [at |-> "unused", text |-> <<>>]

Raised(e, log, parts, made, b) ==
    [outcome |-> ExceptOutcome(e), calls |-> made, parts |-> parts, caught |-> e,
     upstream |-> b, log |-> Append(log, ExceptLog(e))]

Returned(resp, log, parts, made, b) ==
    [outcome |-> resp, calls |-> made, parts |-> parts, caught |-> NoException,
     upstream |-> b, log |-> log]

chat_endpoint(req, b) ==
    LET log0 == <<Info(ReceivedTag \o FormatOpt(req.user_id) \o RoleSep \o req.message)>>
    IN
    IF KeyMissing(gemini_api_key)
    THEN Raised(HTTPException(StatusInternalError, KeyNotConfigured), log0, <<>>, <<>>,
                NotConsulted)
    ELSE
    LET parts == ConversationParts(req)
        full_prompt == FullPrompt(parts)
        log1 == Append(log0, Info(SendingTag \o Prefix(full_prompt, PromptLogLimit)
                                  \o Ellipsis))
    IN
    IF b.at = "GenerativeModel"
    THEN Raised(Exception(b.text), log1, parts, <<>>, b)
    ELSE
    LET made == ProviderCalls(full_prompt, b)
    IN
    IF b.at \in {"generate_content", "text"}
    THEN Raised(Exception(b.text), log1, parts, made, b)
    ELSE Returned(SuccessResponse(b.text),
                  Append(log1, Info(ResponseTag \o Prefix(b.text, ResponseLogLimit)
                                    \o Ellipsis)),
                  parts, made, b)

(***************************************************************************)
(* Inputs: environments, requests, and what the provider does.             *)
(***************************************************************************)
EnvKeys == {None, Some(""), Some("test-key")}
EnvModels == {None, Some("gemini-2.0-flash")}
Environments == [GEMINI_API_KEY : EnvKeys, GEMINI_MODEL : EnvModels]
StrBuilds == {"status_and_detail", "empty"}

\* the content of the i-th turn of a history: "t01", "t02", ...
Content(i) == IF i < 10 THEN <<"t", "0">> \o Decimal(i) ELSE <<"t">> \o Decimal(i)
\* the role of the i-th turn under the role pattern p
RoleAt(i, p) ==
    CASE p = 1 -> IF i % 2 = 1 THEN "user" ELSE "assistant"
      [] p = 2 -> "user"
      [] OTHER -> IF i % 2 = 1 THEN "system" ELSE "user"
RolePatterns == {1, 2, 3}
History(n, p) ==
    [i \in 1..n |-> [role |-> RoleAt(i, p), content |-> Content(i), timestamp |-> None]]
Histories == {History(n, p) : n \in 0..MaxHist, p \in RolePatterns}

ChatRequest(message, history, search_context, user_id, system_prompt) ==
    [message |-> message, history |-> history, search_context |-> search_context,
     user_id |-> user_id, system_prompt |-> system_prompt]

Messages == {<<>>, <<"W","h","y","?">>}
SearchContexts == {None, Some(<<>>), Some(<<"c","t","x">>)}
SystemPrompts == {None, Some(<<>>), Some(<<"B","e"," ","b","r","i","e","f",".">>)}

\* the requests of the specification of the prompt: every history with one
\* question, and every question with its options on three histories
PromptRequests ==
    {ChatRequest(<<"W","h","y","?">>, h, Some(<<"c","t","x">>), None, None) :
        h \in Histories}
    \cup
    {ChatRequest(m, h, c, None, s) :
        m \in Messages, c \in SearchContexts, s \in SystemPrompts,
        h \in {History(0, 1), History(HistoryLimit, 1), History(MaxHist, 3)}}

\* the requests of the specification of the outcomes
OutcomeRequests ==
    {ChatRequest(<<"W","h","y","?">>, <<>>, None, None, None),
     ChatRequest(<<"W","h","y","?">>, History(2, 1), Some(<<"c","t","x">>),
                 Some(<<"u","7">>), None),
     ChatRequest(<<>>, History(1, 3), None, None,
                 Some(<<"B","e"," ","b","r","i","e","f",".">>))}

\* every spelling of word in upper and lower case letters
CaseVariants(word) ==
    {[i \in 1..Len(word) |-> IF i \in up THEN UpperChar(word[i]) ELSE LowerChar(word[i])] :
        up \in SUBSET (1..Len(word))}

NullFault ==
    <<"'","N","o","n","e","T","y","p","e","'"," ","o","b","j","e","c","t"," ","h","a","s"," ",
      "n","o"," ","a","t","t","r","i","b","u","t","e"," ","'","t","e","x","t","'">>
ErrorCores ==
    CaseVariants(ApiMarker) \cup CaseVariants(QuotaMarker)
    \cup {NullFault, <<>>, <<"t","i","m","e","d"," ","o","u","t">>, <<"a","p">>,
          <<"q","u","o","t">>, <<"A","P","I"," ","q","u","o","t","a">>}
Pads == {[i \in 1..n |-> "."] : n \in 0..MaxPad}
ErrorTexts == {pre \o core \o suf : pre \in Pads, core \in ErrorCores, suf \in Pads}
ReplyTexts == {<<>>, <<"H","e","l","l","o","!">>, <<"A","P","I"," ","o","k">>}

Returns(text) == [at |-> "none", text |-> text]
Raises(at, text) == [at |-> at, text |-> text]

\* what the provider may do, in the specification of the outcomes
Behaviours ==
    {Returns(t) : t \in ReplyTexts}
    \cup {Raises("generate_content", t) : t \in ErrorTexts}
    \cup {Raises(at, t) : at \in {"GenerativeModel", "text"},
                          t \in {NullFault, ApiMarker, QuotaMarker, <<"a","p","i">>}}

\* what the provider may do, in the specification of the prompt
PromptBehaviours ==
    {Returns(<<"H","e","l","l","o","!">>),
     Raises("generate_content", <<"A","P","I"," ","q","u","o","t","a">>),
     Raises("text", NullFault),
     Raises("GenerativeModel", <<"t","i","m","e","d"," ","o","u","t">>)}

(***************************************************************************)
(* Initial state: the module has been imported.                            *)
(***************************************************************************)
Init ==
    /\ env \in Environments
    /\ env_at_start = env
    /\ gemini_api_key = env.GEMINI_API_KEY
    /\ http_exception_str \in StrBuilds
    /\ request = None
    /\ upstream = NotConsulted
    /\ caught = NoException
    /\ conversation_parts = <<>>
    /\ calls = <<>>
    /\ outcome = Pending
    /\ log_lines = StartupLog(env.GEMINI_API_KEY)

(***************************************************************************)
(* Actions.                                                                *)
(***************************************************************************)
\* FastAPI parses the body of a POST /chat into req; the handler has not run
Receive(req) ==
    /\ request = None \/ outcome.kind # "pending"
    /\ request' = Some(req)
    /\ outcome' = Pending
    /\ upstream' = NotConsulted
    /\ caught' = NoException
    /\ conversation_parts' = <<>>
    /\ calls' = <<>>
    /\ log_lines' = <<>>
    /\ UNCHANGED <<env, env_at_start, gemini_api_key, http_exception_str>>

\* the handler runs, from its first line to its return or raise
ChatEndpoint(b) ==
    /\ request # None
    /\ outcome.kind = "pending"
    /\ \E run \in {chat_endpoint(request[1], b)} :
           /\ outcome' = run.outcome
           /\ upstream' = run.upstream
           /\ caught' = run.caught
           /\ conversation_parts' = run.parts
           /\ calls' = run.calls
           /\ log_lines' = run.log
    /\ UNCHANGED <<env, env_at_start, gemini_api_key, http_exception_str, request>>

\* the process environment changes while the service runs
SetEnv(name, value) ==
    /\ env[name] # value
    /\ env' = [env EXCEPT ![name] = value]
    /\ UNCHANGED <<env_at_start, gemini_api_key, http_exception_str, request, upstream,
                   caught, conversation_parts, calls, outcome, log_lines>>

Next ==
    \/ \E req \in OutcomeRequests : Receive(req)
    \/ \E b \in Behaviours : ChatEndpoint(b)
    \/ \E value \in EnvKeys : SetEnv("GEMINI_API_KEY", value)
    \/ \E value \in EnvModels : SetEnv("GEMINI_MODEL", value)

Spec == Init /\ [][Next]_vars

NextPrompt ==
    \/ \E req \in PromptRequests : Receive(req)
    \/ \E b \in PromptBehaviours : ChatEndpoint(b)

SpecPrompt == Init /\ [][NextPrompt]_vars

(***************************************************************************)
(* Properties.                                                             *)
(***************************************************************************)
\* the handler has run for the current request
Handled == request # None /\ outcome.kind # "pending"
\* the generate_content call itself raised
GenerationFailed == Handled /\ upstream.at = "generate_content"
\* what the client gets when an upstream failure is absorbed
AbsorbedAs(text) ==
    /\ outcome.kind = "ChatResponse"
    /\ outcome.status_code = StatusOK
    /\ outcome.status = "error"
    /\ outcome.response = Apology
    /\ outcome.error = Some(text)
\* what the client gets when an HTTP 500 leaves the handler
Is500 ==
    /\ outcome.kind = "HTTPException"
    /\ outcome.status_code = StatusInternalError
ApiLower == <<"a","p","i">>
InstructionPhrase ==
    <<"P","l","e","a","s","e"," ","a","n","s","w","e","r"," ","t","h","e"," ","q","u","e","s",
      "t","i","o","n"," ","u","s","i","n","g"," ","t","h","e"," ","p","r","o","v","i","d","e",
      "d"," ","s","e","a","r","c","h"," ","c","o","n","t","e","x","t"," ","w","h","e","n"," ",
      "r","e","l","e","v","a","n","t",".">>

\* C1: every request handled while the credential is absent ends in an HTTP 500
\* whose detail says that the key is not configured, with no ChatResponse; it is
\* never an HTTP 200 with status "error".
C1_MissingKeyIs500 ==
    (Handled /\ KeyMissing(gemini_api_key))
        => (Is500 /\ Contains(outcome.detail, KeyNotConfigured))

\* C2, as stated: a generation failure whose text contains "api" in any letter
\* case is absorbed: HTTP 200, status "error", the apology, error = the raw text.
C2_AnyCaseApiAbsorbed ==
    (GenerationFailed /\ Contains(lower(upstream.text), ApiLower))
        => AbsorbedAs(upstream.text)

\* C2, amended: a generation failure whose text contains "API" in upper case is
\* absorbed: HTTP 200, status "error", the apology, error = the raw text.
C2_UpperApiAbsorbed ==
    (GenerationFailed /\ Contains(upstream.text, ApiMarker))
        => AbsorbedAs(upstream.text)

C2_Witness ==
    /\ GenerationFailed
    /\ Contains(upstream.text, ApiMarker)
    /\ ~Contains(lower(upstream.text), QuotaMarker)
    /\ outcome.kind = "ChatResponse"

\* C3: a generation failure whose text contains "quota" in any letter case gives
\* HTTP 200 with status "error" and a non-empty error equal to the raised text.
C3_QuotaAbsorbed ==
    (GenerationFailed /\ Contains(lower(upstream.text), QuotaMarker))
        => /\ outcome.kind = "ChatResponse"
           /\ outcome.status_code = StatusOK
           /\ outcome.status = "error"
           /\ outcome.error # None
           /\ outcome.error[1] # <<>>
           /\ outcome.error[1] = upstream.text

C3_Witness ==
    /\ GenerationFailed
    /\ Contains(lower(upstream.text), QuotaMarker)
    /\ ~Contains(upstream.text, QuotaMarker)
    /\ ~Contains(upstream.text, ApiMarker)
    /\ outcome.status = "error"

\* C4: an exception whose text contains neither "api" nor "quota", in any letter
\* case, ends in an HTTP 500 whose detail contains the text, with no ChatResponse.
C4_OtherExceptionIs500 ==
    (/\ Handled
     /\ caught # NoException
     /\ ~Contains(lower(StrOf(caught)), ApiLower)
     /\ ~Contains(lower(StrOf(caught)), QuotaMarker))
        => (Is500 /\ Contains(outcome.detail, StrOf(caught)))

C4_Witness ==
    /\ Handled
    /\ caught = Exception(NullFault)
    /\ Is500
    /\ outcome.detail = InternalErrorPrefix \o NullFault

\* C5: a request handled while the credential is absent makes no generation call:
\* the handler fails before the prompt is assembled and the provider is used.
C5_MissingKeyNoCall ==
    (Handled /\ (gemini_api_key = None \/ gemini_api_key = Some("")))
        => (calls = <<>> /\ conversation_parts = <<>> /\ upstream = NotConsulted)

C5_Witness ==
    /\ Handled
    /\ gemini_api_key = Some("")
    /\ calls = <<>>
    /\ outcome.kind # "pending"

\* C6: when the generation call succeeds with the text t the handler returns
\* HTTP 200 with response = t, status = "success" and no error.
C6_SuccessResponse ==
    (Handled /\ upstream.at = "none")
        => /\ outcome.kind = "ChatResponse"
           /\ outcome.status_code = StatusOK
           /\ outcome.response = upstream.text
           /\ outcome.status = "success"
           /\ outcome.error = None

C6_Witness ==
    /\ Handled
    /\ upstream = Returns(<<"A","P","I"," ","o","k">>)
    /\ outcome.status = "success"

\* C7, as stated: every generation call uses the model identifier the
\* environment held when the process started.
C7_ModelFromStartup ==
    \A i \in DOMAIN calls :
        calls[i].model = (IF env_at_start.GEMINI_MODEL = None
                          THEN DefaultModel ELSE env_at_start.GEMINI_MODEL[1])

\* C7, amended: the credential is the one read at the start, and every
\* generation call uses the model identifier the environment holds when its
\* request is handled (the default when it is unset).
C7_ModelFromEnvAtCall ==
    [][(outcome.kind = "pending" /\ outcome'.kind # "pending")
        => /\ gemini_api_key' = env_at_start.GEMINI_API_KEY
           /\ \A i \in DOMAIN calls' :
                calls'[i].model = (IF env.GEMINI_MODEL = None
                                   THEN DefaultModel ELSE env.GEMINI_MODEL[1])]_vars

C7_Witness ==
    /\ Handled
    /\ calls # <<>>
    /\ env_at_start.GEMINI_MODEL = None
    /\ calls[1].model = "gemini-2.0-flash"

\* C8: no retries: a request makes at most one generation call, and a request
\* whose generation fails has made exactly one and has one outcome, a
\* ChatResponse with status "error" or an HTTP 500.
C8_NoRetry ==
    /\ Len(calls) <= 1
    /\ (Handled /\ upstream.at \in {"generate_content", "text"})
        => /\ Len(calls) = 1
           /\ \/ outcome.kind = "ChatResponse" /\ outcome.status = "error"
              \/ Is500

C8_Witness ==
    /\ GenerationFailed
    /\ Len(calls) = 1
    /\ Is500

\* C9: when the history has more than 10 entries the prompt holds the segments
\* of exactly the last 10, in their order, between the system segment and the
\* final human segment, and no older entry appears in it.
C9_LastTenOnly ==
    (Handled /\ conversation_parts # <<>> /\ Len(request[1].history) > HistoryLimit)
        => LET history == request[1].history
               n == Len(history)
               parts == conversation_parts
           IN  /\ Len(parts) = HistoryLimit + 2
               /\ Prefix(parts[1], Len(SystemTag)) = SystemTag
               /\ Prefix(parts[Len(parts)], Len(HumanTag)) = HumanTag
               /\ \A i \in 1..HistoryLimit :
                    parts[i + 1] =
                        (IF history[n - HistoryLimit + i].role = "user"
                         THEN HumanRole ELSE AssistantRole)
                        \o RoleSep \o history[n - HistoryLimit + i].content
               /\ \A j \in 1..(n - HistoryLimit) :
                    /\ \A k \in 1..Len(parts) : ~Contains(parts[k], history[j].content)
                    /\ \A c \in DOMAIN calls :
                         ~Contains(calls[c].prompt, history[j].content)
               /\ \A c \in DOMAIN calls : calls[c].prompt = Join(parts, Separator)

C9_Witness ==
    /\ Handled
    /\ Len(request[1].history) > HistoryLimit
    /\ Len(conversation_parts) = HistoryLimit + 2
    /\ calls # <<>>

\* C10: the final segment is "Human: " + message when search_context is None or
\* empty; otherwise it starts with "Human: " and contains the message, the
\* search context and the instruction to use the context.
C10_FinalSegment ==
    (Handled /\ conversation_parts # <<>>)
        => LET req == request[1]
               last == conversation_parts[Len(conversation_parts)]
           IN  IF req.search_context = None \/ req.search_context = Some(<<>>)
               THEN last = HumanTag \o req.message
               ELSE /\ Prefix(last, Len(HumanTag)) = HumanTag
                    /\ Contains(last, req.message)
                    /\ Contains(last, req.search_context[1])
                    /\ Contains(last, InstructionPhrase)
                    /\ last = HumanTag \o QuestionTag \o req.message \o ContextTag
                              \o req.search_context[1] \o InstructionTail

C10_Witness ==
    /\ Handled
    /\ request[1].search_context = Some(<<>>)
    /\ request[1].message # <<>>
    /\ conversation_parts # <<>>
    /\ conversation_parts[Len(conversation_parts)] = HumanTag \o request[1].message
====
